---- MODULE Spec2Model ----
(***************************************************************************)
(* Model of scripts/analyze_trigger.py: the TriggerAnalyzer class (a       *)
(* line-oriented scanner that flags DML and SOQL inside for loops, derives *)
(* bulkification warnings and a complexity score) and main's pipeline.     *)
(*                                                                         *)
(* Text representation.  trigger_body holds the value of                   *)
(* self.trigger_body.split('\n'): a non-empty sequence of lines, the empty *)
(* text being the one-line sequence << <<>> >>.  A line is the sequence of *)
(* its lexical tokens: every whitespace character is the token " ", every  *)
(* other non-word character is a token of its own, and a maximal run of    *)
(* word characters is one token.  Two word tokens next to each other stand *)
(* for their concatenation ("x","insert" is the text xinsert), which is    *)
(* how a missing word boundary is written.  The regular expressions of the *)
(* source are evaluated on this token form.  None of them can match across *)
(* a newline, so re.findall over the whole text is the sum over the lines. *)
(***************************************************************************)
EXTENDS Integers, Sequences, FiniteSets, TLC

VARIABLES
    trigger_body,      \* self.trigger_body, as its list of lines
    issues,            \* self.issues: dml_in_loops, soql_in_loops, missing_bulk
    complexity_score,  \* self.complexity_score
    retrieved,         \* outcome of retrieve_trigger: "pending", "ok", "failed"
    recommendation,    \* the approach generate_report has printed, "" before
    pc                 \* the last step completed on this analyzer

vars == <<trigger_body, issues, complexity_score, retrieved, recommendation, pc>>

----------------------------------------------------------------------------
(* Bounds of the model *)

\* longest retrieved trigger text, in lines, before padding
MaxLines == 3

\* a sweep may start only while its finding list is shorter than this
MaxFindings == 2

\* analyze_bulkification may start only while missing_bulk is shorter than this
MaxWarnings == 2

\* main's inputs are padded up to just below MaxTens * 10 non-blank lines
MaxTens == 4

----------------------------------------------------------------------------
(* Tokens and lines *)

\* tokens matched by \s (and removed by str.strip)
WhiteSpace == {" "}

\* tokens that are not word characters (\W): a \b lies between one of
\* these, or a line end, and a word token
NonWord ==
    {" ", "!", "&", "'", "(", ")", "+", ",", "-", ".", ":", ";", "<", "=",
     ">", "{", "|", "}", "[", "]", "?"}

\* case folding done by re.IGNORECASE on the tokens the SOQL pattern names
casefold(tok) == IF tok \in {"SELECT", "Select", "select"} THEN "select" ELSE tok

Min(S) == CHOOSE x \in S : \A y \in S : x <= y
Max(S) == CHOOSE x \in S : \A y \in S : x >= y

\* str.strip(): the line without its leading and trailing whitespace
strip(line) ==
    LET solid == {i \in 1..Len(line) : line[i] \notin WhiteSpace}
    IN  IF solid = {} THEN <<>> ELSE SubSeq(line, Min(solid), Max(solid))

\* \b before token i of the line
word_boundary(line, i) == i = 1 \/ line[i - 1] \in NonWord

\* re.search(r'\bfor\s*\(', line)
search_for(line) ==
    \E i \in 1..Len(line) :
        /\ line[i] = "for"
        /\ word_boundary(line, i)
        /\ \E j \in (i + 1)..Len(line) :
               /\ line[j] = "("
               /\ \A k \in (i + 1)..(j - 1) : line[k] \in WhiteSpace

\* the tokens of dml_patterns, in declaration order: r'\b<token>\s+'
dml_patterns == <<"insert", "update", "delete", "undelete", "upsert">>

\* re.search(r'\b<token>\s+', line)
search_dml(token, line) ==
    \E i \in 1..Len(line) :
        /\ line[i] = token
        /\ word_boundary(line, i)
        /\ i + 1 <= Len(line)
        /\ line[i + 1] \in WhiteSpace

\* re.search(r'\[SELECT\s+', line, re.IGNORECASE)
search_soql(line) ==
    \E i \in 1..Len(line) :
        /\ line[i] = "["
        /\ i + 2 <= Len(line)
        /\ casefold(line[i + 1]) = "select"
        /\ line[i + 2] \in WhiteSpace

\* len(re.findall(r'Trigger\.(isBefore|isAfter)', line))
findall_contexts(line) ==
    Cardinality({i \in 1..Len(line) :
        /\ i + 2 <= Len(line)
        /\ line[i] = "Trigger"
        /\ line[i + 1] = "."
        /\ line[i + 2] \in {"isBefore", "isAfter"}})

----------------------------------------------------------------------------
(* The two sweeps *)

\* the dml_patterns that match the line, in the order of the inner for loop
dml_matches(line) == SelectSeq(dml_patterns, LAMBDA token : search_dml(token, line))

\* dml_hits with the inner loop left at the first matching pattern
dml_hits_first(line, i, loop_start) ==
    IF dml_matches(line) = <<>>
    THEN <<>>
    ELSE <<[line |-> i, code |-> strip(line), loop_start |-> loop_start]>>

\* the dicts appended for line i: one per matching pattern
dml_hits(line, i, loop_start) ==
    [k \in 1..Len(dml_matches(line)) |->
        [line |-> i, code |-> strip(line), loop_start |-> loop_start]]

\* dml_start with in_loop left set, as a sweep that ended inside a loop
\* would leave it
dml_start_inside == [in_loop |-> TRUE, loop_start |-> 0, found |-> <<>>]

\* the scanner of analyze_dml_in_loops before its first iteration, with the
\* dicts it appends collected in found
dml_start == [in_loop |-> FALSE, loop_start |-> 0, found |-> <<>>]

\* dml_step with the patterns tested whether or not in_loop is set
dml_step_unguarded(st, line, i) ==
    LET entered == IF search_for(line)
                   THEN [st EXCEPT !.in_loop = TRUE, !.loop_start = i]
                   ELSE st
        exited == IF entered.in_loop /\ strip(line) = <<"}">>
                  THEN [entered EXCEPT !.in_loop = FALSE]
                  ELSE entered
    IN  [exited EXCEPT !.found = @ \o dml_hits(line, i, exited.loop_start)]

\* dml_step with the patterns tested before the loop entry is tracked
dml_step_test_first(st, line, i) ==
    LET entered == IF search_for(line)
                   THEN [st EXCEPT !.in_loop = TRUE, !.loop_start = i]
                   ELSE st
        exited == IF entered.in_loop /\ strip(line) = <<"}">>
                  THEN [entered EXCEPT !.in_loop = FALSE]
                  ELSE entered
    IN  IF st.in_loop
        THEN [exited EXCEPT !.found = @ \o dml_hits(line, i, st.loop_start)]
        ELSE exited

\* dml_step with loop_start recorded only when the scanner is outside a loop
dml_step_keep_start(st, line, i) ==
    LET entered == IF search_for(line)
                   THEN [st EXCEPT !.in_loop = TRUE,
                                   !.loop_start = IF st.in_loop THEN @ ELSE i]
                   ELSE st
        exited == IF entered.in_loop /\ strip(line) = <<"}">>
                  THEN [entered EXCEPT !.in_loop = FALSE]
                  ELSE entered
    IN  IF exited.in_loop
        THEN [exited EXCEPT !.found = @ \o dml_hits(line, i, exited.loop_start)]
        ELSE exited

\* dml_step with loop_start not recorded on loop entry
dml_step_stale_start(st, line, i) ==
    LET entered == IF search_for(line)
                   THEN [st EXCEPT !.in_loop = TRUE]
                   ELSE st
        exited == IF entered.in_loop /\ strip(line) = <<"}">>
                  THEN [entered EXCEPT !.in_loop = FALSE]
                  ELSE entered
    IN  IF exited.in_loop
        THEN [exited EXCEPT !.found = @ \o dml_hits(line, i, exited.loop_start)]
        ELSE exited

\* dml_step with the loop exit tested on the line as it stands, not stripped
dml_step_unstripped(st, line, i) ==
    LET entered == IF search_for(line)
                   THEN [st EXCEPT !.in_loop = TRUE, !.loop_start = i]
                   ELSE st
        exited == IF entered.in_loop /\ line = <<"}">>
                  THEN [entered EXCEPT !.in_loop = FALSE]
                  ELSE entered
    IN  IF exited.in_loop
        THEN [exited EXCEPT !.found = @ \o dml_hits(line, i, exited.loop_start)]
        ELSE exited

\* dml_step with the dicts of a line put in front of the earlier ones
dml_step_prepend(st, line, i) ==
    LET entered == IF search_for(line)
                   THEN [st EXCEPT !.in_loop = TRUE, !.loop_start = i]
                   ELSE st
        exited == IF entered.in_loop /\ strip(line) = <<"}">>
                  THEN [entered EXCEPT !.in_loop = FALSE]
                  ELSE entered
    IN  IF exited.in_loop
        THEN [exited EXCEPT !.found = dml_hits(line, i, exited.loop_start) \o @]
        ELSE exited

\* one iteration of the for loop of analyze_dml_in_loops, on line i
dml_step(st, line, i) ==
    LET entered == IF search_for(line)
                   THEN [st EXCEPT !.in_loop = TRUE, !.loop_start = i]
                   ELSE st
        exited == IF entered.in_loop /\ strip(line) = <<"}">>
                  THEN [entered EXCEPT !.in_loop = FALSE]
                  ELSE entered
    IN  IF exited.in_loop
        THEN [exited EXCEPT !.found = @ \o dml_hits(line, i, exited.loop_start)]
        ELSE exited

\* iterations lo..hi of that loop, in order, started in state st: the range
\* is halved, and the first half is evaluated to its end state before the
\* second half starts from it, which keeps the evaluation shallow on long texts
RECURSIVE dml_run(_, _, _, _)
dml_run(st, lines, lo, hi) ==
    IF lo > hi THEN st
    ELSE IF lo = hi THEN dml_step(st, lines[lo], lo)
    ELSE LET mid == (lo + hi) \div 2
         IN  CHOOSE end \in {dml_run(half, lines, mid + 1, hi) :
                                half \in {dml_run(st, lines, lo, mid)}} : TRUE

\* in_loop, loop_start and the dicts appended, after the first n iterations
dml_scan(lines, n) == dml_run(dml_start, lines, 1, n)

\* analyze_dml_in_loops starting from a fresh issues dict
analyze_dml_in_loops_fresh ==
    /\ issues' = [dml_in_loops |-> issues.dml_in_loops
                                     \o dml_scan(trigger_body, Len(trigger_body)).found,
                  soql_in_loops |-> <<>>,
                  missing_bulk |-> <<>>]
    /\ UNCHANGED <<trigger_body, complexity_score, retrieved, recommendation>>

\* TriggerAnalyzer.analyze_dml_in_loops
analyze_dml_in_loops ==
    /\ issues' = [issues EXCEPT !.dml_in_loops =
                     @ \o dml_scan(trigger_body, Len(trigger_body)).found]
    /\ UNCHANGED <<trigger_body, complexity_score, retrieved, recommendation>>

\* the scanner of analyze_soql_in_loops before its first iteration
soql_start == [in_loop |-> FALSE, loop_start |-> 0, found |-> <<>>]

\* one iteration of the for loop of analyze_soql_in_loops, on line i
soql_step(st, line, i) ==
    LET entered == IF search_for(line)
                   THEN [st EXCEPT !.in_loop = TRUE, !.loop_start = i]
                   ELSE st
        exited == IF entered.in_loop /\ strip(line) = <<"}">>
                  THEN [entered EXCEPT !.in_loop = FALSE]
                  ELSE entered
    IN  IF exited.in_loop /\ search_soql(line)
        THEN [exited EXCEPT !.found = Append(@,
                 [line |-> i, code |-> strip(line),
                  loop_start |-> exited.loop_start])]
        ELSE exited

\* iterations lo..hi of that loop, in order, started in state st
RECURSIVE soql_run(_, _, _, _)
soql_run(st, lines, lo, hi) ==
    IF lo > hi THEN st
    ELSE IF lo = hi THEN soql_step(st, lines[lo], lo)
    ELSE LET mid == (lo + hi) \div 2
         IN  CHOOSE end \in {soql_run(half, lines, mid + 1, hi) :
                                half \in {soql_run(st, lines, lo, mid)}} : TRUE

\* in_loop, loop_start and the dicts appended, after the first n iterations
soql_scan(lines, n) == soql_run(soql_start, lines, 1, n)

\* TriggerAnalyzer.analyze_soql_in_loops
analyze_soql_in_loops ==
    /\ issues' = [issues EXCEPT !.soql_in_loops =
                     @ \o soql_scan(trigger_body, Len(trigger_body)).found]
    /\ UNCHANGED <<trigger_body, complexity_score, retrieved, recommendation>>

----------------------------------------------------------------------------
(* Bulkification and scoring *)

\* [issue['line'] for issue in findings]
lines_of(findings) == [k \in 1..Len(findings) |-> findings[k].line]

DmlMessage == "DML operations should be collected and executed outside loops"
SoqlMessage == "SOQL queries should be moved outside loops or use Maps for lookups"

\* bulk_warnings with the two if statements in the other order
bulk_warnings_soql_first(dml, soql) ==
    (IF soql # <<>>
     THEN <<[message |-> SoqlMessage, affected_lines |-> lines_of(soql)]>>
     ELSE <<>>)
    \o
    (IF dml # <<>>
     THEN <<[message |-> DmlMessage, affected_lines |-> lines_of(dml)]>>
     ELSE <<>>)

\* the entries analyze_bulkification appends to missing_bulk
bulk_warnings(dml, soql) ==
    (IF dml # <<>>
     THEN <<[message |-> DmlMessage, affected_lines |-> lines_of(dml)]>>
     ELSE <<>>)
    \o
    (IF soql # <<>>
     THEN <<[message |-> SoqlMessage, affected_lines |-> lines_of(soql)]>>
     ELSE <<>>)

\* TriggerAnalyzer.analyze_bulkification
analyze_bulkification ==
    /\ issues' = [issues EXCEPT !.missing_bulk =
                     @ \o bulk_warnings(issues.dml_in_loops, issues.soql_in_loops)]
    /\ UNCHANGED <<trigger_body, complexity_score, retrieved, recommendation>>

\* len(re.findall(r'Trigger\.(isBefore|isAfter)', text)) over lines lo..hi
RECURSIVE count_contexts(_, _, _)
count_contexts(lines, lo, hi) ==
    IF lo > hi THEN 0
    ELSE IF lo = hi THEN findall_contexts(lines[lo])
    ELSE LET mid == (lo + hi) \div 2
         IN  count_contexts(lines, lo, mid) + count_contexts(lines, mid + 1, hi)

\* len([l for l in text.split('\n') if l.strip()])
count_loc(lines) == Cardinality({i \in 1..Len(lines) : strip(lines[i]) # <<>>})

min(a, b) == IF a <= b THEN a ELSE b

\* raw_score with two points per line that has findings, not per finding
raw_score_per_line(lines, iss) ==
    1 + Cardinality({iss.dml_in_loops[k].line : k \in 1..Len(iss.dml_in_loops)}) * 2
      + Cardinality({iss.soql_in_loops[k].line : k \in 1..Len(iss.soql_in_loops)}) * 2
      + Len(iss.missing_bulk) * 1
      + count_contexts(lines, 1, Len(lines))
      + min(count_loc(lines) \div 10, 3)

\* raw_score with score starting at 0
raw_score_base0(lines, iss) ==
    0 + Len(iss.dml_in_loops) * 2 + Len(iss.soql_in_loops) * 2
      + Len(iss.missing_bulk) * 1
      + count_contexts(lines, 1, Len(lines))
      + min(count_loc(lines) \div 10, 3)

\* the local variable score of calculate_complexity, before the final min
raw_score(lines, iss) ==
    1 + Len(iss.dml_in_loops) * 2
      + Len(iss.soql_in_loops) * 2
      + Len(iss.missing_bulk) * 1
      + count_contexts(lines, 1, Len(lines))
      + min(count_loc(lines) \div 10, 3)

\* score_of without the final min(score, 10)
score_of_unclamped(lines, iss) == raw_score(lines, iss)

\* the value calculate_complexity stores
score_of(lines, iss) == min(raw_score(lines, iss), 10)

\* TriggerAnalyzer.calculate_complexity
calculate_complexity ==
    /\ complexity_score' = score_of(trigger_body, issues)
    /\ UNCHANGED <<trigger_body, issues, retrieved, recommendation>>

\* recommend_approach with the tier bounds exclusive
recommend_approach_exclusive(score) ==
    IF score < 3
    THEN "Simple handler class with separate methods for each trigger context"
    ELSE IF score < 6
    THEN "Handler class with bulkified collections and helper methods"
    ELSE "Unified handler framework with separate concern classes (validation, DML, etc.)"

\* TriggerAnalyzer.recommend_approach
recommend_approach(score) ==
    IF score <= 3
    THEN "Simple handler class with separate methods for each trigger context"
    ELSE IF score <= 6
    THEN "Handler class with bulkified collections and helper methods"
    ELSE "Unified handler framework with separate concern classes (validation, DML, etc.)"

----------------------------------------------------------------------------
(* Inputs: the trigger texts the model retrieves *)

LineEmpty == <<>>
LineClose == <<" ", "}">>
LineForNested == <<"for", "(", "x", ")", "{", "if", "(", "x", ")", "{">>
LineInsert == <<" ", "insert", " ", "x", ";", "x", "for", "(", ")", ";">>
LineTwoDml == <<"undelete", " ", "x", ";", " ", "update", " ", "x", ";">>
LineSoql == <<"x", "insert", " ", "x", "=", "[", "select", " ", "x", "]", ";">>
LineForSoql == <<"for", " ", "(", "x", ":", "[", "SELECT", " ", "x", "]", ")", "{">>
LineContexts ==
    <<"if", "(", "Trigger", ".", "isBefore", "|", "|", "Trigger", ".", "isAfter",
      ")", "{">>

LineManyContexts ==
    <<"Trigger", ".", "isAfter", "?", "Trigger", ".", "isBefore", "?", "Trigger",
      ".", "isAfter", ":", "Trigger", ".", "isBefore", ";">>
LineForDelete == <<"for", "(", "x", ")", " ", "delete", " ", "x", ";">>

\* the lines a retrieved text is made of
Catalog ==
    {LineEmpty, LineClose, LineForNested, LineInsert, LineTwoDml, LineSoql,
     LineForSoql, LineContexts, LineManyContexts, LineForDelete}

\* the texts of at most MaxLines lines (a text has at least one line)
Bodies == UNION {[1..n -> Catalog] : n \in 1..MaxLines}

\* the lines that open a loop, close a block or hold an anti-pattern
ScanCatalog == {LineClose, LineForNested, LineInsert, LineTwoDml, LineSoql}

\* the texts of at most MaxLines such lines
ScanBodies == UNION {[1..n -> ScanCatalog] : n \in 1..MaxLines}

\* a statement no pattern matches, used to lengthen a text
LinePad == <<"x", "=", "x", ";">>

PadLens == {0} \cup {10 * k - 2 : k \in 1..MaxTens}

\* the texts of Bodies followed by 0, 8, 18, ... lines of padding
LongBodies == {b \o [i \in 1..p |-> LinePad] : b \in Bodies, p \in PadLens}

FallbackBody ==
  <<
     <<"trigger", " ", "OpportunityTrigger", " ", "on", " ", "Opportunity", " ", "(",
        "before", " ", "insert", ",", " ", "before", " ", "update", ",", " ",
        "after", " ", "update", ")", " ", "{">>,
     <<" ", " ", " ", " ", "if", " ", "(", "Trigger", ".", "isBefore", " ", "&", "&",
        " ", "Trigger", ".", "isInsert", ")", " ", "{">>,
     <<" ", " ", " ", " ", " ", " ", " ", " ", "for", " ", "(", "Opportunity", " ",
        "o", " ", ":", " ", "Trigger", ".", "new", ")", " ", "{">>,
     <<" ", " ", " ", " ", " ", " ", " ", " ", " ", " ", " ", " ", "if", " ", "(",
        "o", ".", "StageName", " ", "=", "=", " ", "'", "Closed", " ", "Won", "'",
        " ", "&", "&", " ", "(", "o", ".", "Amount", " ", "=", "=", " ", "null", " ",
        "|", "|", " ", "o", ".", "Amount", " ", "<", " ", "1000", ")", ")", " ",
        "{">>,
     <<" ", " ", " ", " ", " ", " ", " ", " ", " ", " ", " ", " ", " ", " ", " ",
        " ", "o", ".", "addError", "(", "'", "Closed", " ", "Won", " ",
        "opportunities", " ", "must", " ", "have", " ", "Amount", " ", ">", " ",
        "1000", ".", "'", ")", ";">>,
     <<" ", " ", " ", " ", " ", " ", " ", " ", " ", " ", " ", " ", "}">>,
     <<" ", " ", " ", " ", " ", " ", " ", " ", "}">>,
     <<" ", " ", " ", " ", "}">>,
     <<" ", " ", " ", " ", "if", " ", "(", "Trigger", ".", "isBefore", " ", "&", "&",
        " ", "Trigger", ".", "isUpdate", ")", " ", "{">>,
     <<" ", " ", " ", " ", " ", " ", " ", " ", "for", " ", "(", "Opportunity", " ",
        "o", " ", ":", " ", "Trigger", ".", "new", ")", " ", "{">>,
     <<" ", " ", " ", " ", " ", " ", " ", " ", " ", " ", " ", " ", "Opportunity",
        " ", "oldO", " ", "=", " ", "Trigger", ".", "oldMap", ".", "get", "(", "o",
        ".", "Id", ")", ";">>,
     <<" ", " ", " ", " ", " ", " ", " ", " ", " ", " ", " ", " ", "if", " ", "(",
        "o", ".", "StageName", " ", "!", "=", " ", "oldO", ".", "StageName", ")",
        " ", "{">>,
     <<" ", " ", " ", " ", " ", " ", " ", " ", " ", " ", " ", " ", " ", " ", " ",
        " ", "o", ".", "Description", " ", "=", " ", "'", "Stage", " ", "changed",
        " ", "from", " ", "'", " ", "+", " ", "oldO", ".", "StageName", " ", "+",
        " ", "'", " ", "to", " ", "'", " ", "+", " ", "o", ".", "StageName", ";">>,
     <<" ", " ", " ", " ", " ", " ", " ", " ", " ", " ", " ", " ", "}">>,
     <<" ", " ", " ", " ", " ", " ", " ", " ", "}">>,
     <<" ", " ", " ", " ", "}">>,
     <<" ", " ", " ", " ", "if", " ", "(", "Trigger", ".", "isAfter", " ", "&", "&",
        " ", "Trigger", ".", "isUpdate", ")", " ", "{">>,
     <<" ", " ", " ", " ", " ", " ", " ", " ", "for", " ", "(", "Opportunity", " ",
        "o", " ", ":", " ", "Trigger", ".", "new", ")", " ", "{">>,
     <<" ", " ", " ", " ", " ", " ", " ", " ", " ", " ", " ", " ", "Opportunity",
        " ", "oldO", " ", "=", " ", "Trigger", ".", "oldMap", ".", "get", "(", "o",
        ".", "Id", ")", ";">>,
     <<" ", " ", " ", " ", " ", " ", " ", " ", " ", " ", " ", " ", "if", " ", "(",
        "o", ".", "StageName", " ", "=", "=", " ", "'", "Closed", " ", "Won", "'",
        " ", "&", "&", " ", "oldO", ".", "StageName", " ", "!", "=", " ", "'",
        "Closed", " ", "Won", "'", ")", " ", "{">>,
     <<" ", " ", " ", " ", " ", " ", " ", " ", " ", " ", " ", " ", " ", " ", " ",
        " ", "Task", " ", "t", " ", "=", " ", "new", " ", "Task", "(">>,
     <<" ", " ", " ", " ", " ", " ", " ", " ", " ", " ", " ", " ", " ", " ", " ",
        " ", " ", " ", " ", " ", "WhatId", " ", "=", " ", "o", ".", "Id", ",">>,
     <<" ", " ", " ", " ", " ", " ", " ", " ", " ", " ", " ", " ", " ", " ", " ",
        " ", " ", " ", " ", " ", "OwnerId", " ", "=", " ", "o", ".", "OwnerId",
        ",">>,
     <<" ", " ", " ", " ", " ", " ", " ", " ", " ", " ", " ", " ", " ", " ", " ",
        " ", " ", " ", " ", " ", "Subject", " ", "=", " ", "'", "Send", " ", "thank",
        "-", "you", "'", ",">>,
     <<" ", " ", " ", " ", " ", " ", " ", " ", " ", " ", " ", " ", " ", " ", " ",
        " ", " ", " ", " ", " ", "Status", " ", "=", " ", "'", "Not", " ", "Started",
        "'", ",">>,
     <<" ", " ", " ", " ", " ", " ", " ", " ", " ", " ", " ", " ", " ", " ", " ",
        " ", " ", " ", " ", " ", "Priority", " ", "=", " ", "'", "Normal", "'",
        ",">>,
     <<" ", " ", " ", " ", " ", " ", " ", " ", " ", " ", " ", " ", " ", " ", " ",
        " ", " ", " ", " ", " ", "ActivityDate", " ", "=", " ", "Date", ".", "today",
        "(", ")">>,
     <<" ", " ", " ", " ", " ", " ", " ", " ", " ", " ", " ", " ", " ", " ", " ",
        " ", ")", ";">>,
     <<" ", " ", " ", " ", " ", " ", " ", " ", " ", " ", " ", " ", " ", " ", " ",
        " ", "insert", " ", "t", ";">>,
     <<" ", " ", " ", " ", " ", " ", " ", " ", " ", " ", " ", " ", "}">>,
     <<" ", " ", " ", " ", " ", " ", " ", " ", "}">>,
     <<" ", " ", " ", " ", "}">>,
     <<"}">>
  >>

----------------------------------------------------------------------------
(* The analyzer as an object: methods called in any order *)

\* TriggerAnalyzer.__init__
Init ==
    /\ trigger_body = << <<>> >>
    /\ issues = [dml_in_loops |-> <<>>, soql_in_loops |-> <<>>, missing_bulk |-> <<>>]
    /\ complexity_score = 0
    /\ retrieved = "pending"
    /\ recommendation = ""
    /\ pc = "new"

\* TriggerAnalyzer.retrieve_trigger; ok is whether the sf command and the
\* JSON decoding succeeded, body the text found in the answer
retrieve_trigger(ok, body) ==
    /\ trigger_body' = IF ok THEN body ELSE trigger_body
    /\ retrieved' = IF ok THEN "ok" ELSE "failed"
    /\ UNCHANGED <<issues, complexity_score, recommendation>>

Retrieve ==
    /\ pc = "new"
    /\ \E body \in ScanBodies : retrieve_trigger(TRUE, body)
    /\ pc' = "retrieved"

RetrieveFails ==
    /\ pc = "new"
    /\ retrieve_trigger(FALSE, trigger_body)
    /\ pc' = "retrieved"

DmlSweep ==
    /\ Len(issues.dml_in_loops) < MaxFindings
    /\ analyze_dml_in_loops
    /\ pc' = "dml"

SoqlSweep ==
    /\ Len(issues.soql_in_loops) < MaxFindings
    /\ analyze_soql_in_loops
    /\ pc' = "soql"

Bulkify ==
    /\ Len(issues.missing_bulk) < MaxWarnings
    /\ analyze_bulkification
    /\ pc' = "bulk"

Score ==
    /\ calculate_complexity
    /\ pc' = "scored"

Next == Retrieve \/ RetrieveFails \/ DmlSweep \/ SoqlSweep \/ Bulkify \/ Score

Spec == Init /\ [][Next]_vars

----------------------------------------------------------------------------
(* main: one analyzer, taken through the pipeline once *)

MainRetrieve ==
    /\ pc = "new"
    /\ \E body \in LongBodies : retrieve_trigger(TRUE, body)
    /\ pc' = "retrieved"

\* retrieval fails and main stops there
MainFallbackExits ==
    /\ pc = "new"
    /\ retrieved' = "failed"
    /\ UNCHANGED <<trigger_body, issues, complexity_score, recommendation>>
    /\ pc' = "exit"

\* retrieval fails and main substitutes the example trigger
MainFallback ==
    /\ pc = "new"
    /\ trigger_body' = FallbackBody
    /\ retrieved' = "failed"
    /\ UNCHANGED <<issues, complexity_score, recommendation>>
    /\ pc' = "retrieved"

MainDml == pc = "retrieved" /\ analyze_dml_in_loops /\ pc' = "dml"

MainSoql == pc = "dml" /\ analyze_soql_in_loops /\ pc' = "soql"

\* main going on to the scoring without analyze_bulkification
MainBulkSkipped ==
    /\ pc = "soql"
    /\ UNCHANGED <<trigger_body, issues, complexity_score, retrieved, recommendation>>
    /\ pc' = "bulk"

MainBulk == pc = "soql" /\ analyze_bulkification /\ pc' = "bulk"

MainScore == pc = "bulk" /\ calculate_complexity /\ pc' = "scored"

\* TriggerAnalyzer.generate_report: prints the report, the recommended
\* approach among it, and changes nothing of the analyzer
generate_report ==
    /\ recommendation' = recommend_approach(complexity_score)
    /\ UNCHANGED <<trigger_body, issues, complexity_score, retrieved>>

MainReport == pc = "scored" /\ generate_report /\ pc' = "reported"

MainNext ==
    MainRetrieve \/ MainFallback \/ MainDml \/ MainSoql \/ MainBulk \/ MainScore
    \/ MainReport

MainSpec == Init /\ [][MainNext]_vars

----------------------------------------------------------------------------
(* Definitions the properties share, stated without the scanning operators *)

\* main has run calculate_complexity
Scored == pc \in {"scored", "reported"}

\* the line is, apart from whitespace, one closing brace
IsCloseLine(line) == SelectSeq(line, LAMBDA tok : tok \notin WhiteSpace) = <<"}">>

\* the line has a character that is not whitespace
IsNonBlank(line) == \E j \in 1..Len(line) : line[j] \notin WhiteSpace

\* the (line, position) pairs where a trigger-context marker starts
MarkerSites(lines) ==
    {s \in (1..Len(lines)) \X (1..20) :
        /\ s[2] + 2 <= Len(lines[s[1]])
        /\ lines[s[1]][s[2]] = "Trigger"
        /\ lines[s[1]][s[2] + 1] = "."
        /\ lines[s[1]][s[2] + 2] \in {"isBefore", "isAfter"}}

DmlTokens == {dml_patterns[k] : k \in 1..Len(dml_patterns)}

\* for every line of a text, whether the DML scanner is inside a loop when
\* it tests the line against the patterns
DmlInside(lines) == [i \in 1..Len(lines) |-> dml_scan(lines, i).in_loop]

\* the (line, pattern) pairs of a text where the line is marked inside a
\* loop and the pattern matches the line
DmlPairs(lines, inside) ==
    {pr \in (1..Len(lines)) \X DmlTokens :
        inside[pr[1]] /\ search_dml(pr[2], lines[pr[1]])}

\* what a sweep appended: the part of new after old
Appended(old, new) == SubSeq(new, Len(old) + 1, Len(new))

\* how many entries of a finding sequence are at line i
CountAt(findings, i) == Cardinality({k \in 1..Len(findings) : findings[k].line = i})

----------------------------------------------------------------------------
\* C1: once calculate_complexity has run, after the two sweeps and
\* analyze_bulkification, complexity_score is an integer from 1 to 10,
\* whatever the text produced.
C1_ScoreInRange == Scored => complexity_score \in 1..10

\* the uncapped sum is above 10 and the stored score is 10
C1_Witness ==
    /\ pc = "scored"
    /\ raw_score(trigger_body, issues) > 10
    /\ complexity_score = 10

\* C10: the stored score is min(10, 1 + 2*DML findings + 2*SOQL findings +
\* warnings + trigger-context marker occurrences + min(floor(non-blank
\* lines / 10), 3)), every finding counted, also several on one line.
C10_ScoreFormula ==
    Scored =>
        LET bonus == IF Cardinality({i \in 1..Len(trigger_body) :
                            IsNonBlank(trigger_body[i])}) \div 10 > 3
                     THEN 3
                     ELSE Cardinality({i \in 1..Len(trigger_body) :
                            IsNonBlank(trigger_body[i])}) \div 10
            total == 1 + 2 * Len(issues.dml_in_loops)
                       + 2 * Len(issues.soql_in_loops)
                       + Len(issues.missing_bulk)
                       + Cardinality(MarkerSites(trigger_body))
                       + bonus
        IN  complexity_score = IF total > 10 THEN 10 ELSE total

\* a score below the cap made of two findings on one line, a warning,
\* markers and a line-count bonus
C10_Witness ==
    /\ pc = "scored"
    /\ complexity_score < 10
    /\ \E j, k \in 1..Len(issues.dml_in_loops) :
           j # k /\ issues.dml_in_loops[j].line = issues.dml_in_loops[k].line
    /\ issues.missing_bulk # <<>>
    /\ MarkerSites(trigger_body) # {}
    /\ Cardinality({i \in 1..Len(trigger_body) : IsNonBlank(trigger_body[i])}) >= 10

----------------------------------------------------------------------------
\* C2: a DML sweep reports a finding only for a line at which its scanner
\* is inside a loop, and reports as many findings as there are (line,
\* pattern) pairs with the scanner inside a loop at the line and the pattern
\* matching it; a line scanned outside a loop gets no finding.
C2_DmlOnlyInsideLoop ==
    [][pc' = "dml" =>
        \A inside \in {DmlInside(trigger_body)} :
        \A seg \in {Appended(issues.dml_in_loops, issues'.dml_in_loops)} :
            /\ issues'.dml_in_loops = issues.dml_in_loops \o seg
            /\ \A k \in 1..Len(seg) :
                   seg[k].line \in 1..Len(trigger_body) /\ inside[seg[k].line]
            /\ Len(seg) = Cardinality(DmlPairs(trigger_body, inside))
            /\ \A i \in 1..Len(trigger_body) :
                   ~inside[i] => CountAt(seg, i) = 0]_vars

\* a sweep has reported a DML statement inside a loop and has passed over
\* another one outside
C2_Witness ==
    /\ pc = "dml"
    /\ issues.dml_in_loops # <<>>
    /\ \E i \in 1..Len(trigger_body) :
           /\ ~dml_scan(trigger_body, i).in_loop
           /\ dml_matches(trigger_body[i]) # <<>>

\* C3: running a sweep again on the unchanged text leaves the finding
\* sequences as the first run left them.
C3_RescanIdentical ==
    [][((pc = "dml" /\ pc' = "dml") \/ (pc = "soql" /\ pc' = "soql"))
           => issues' = issues]_vars

\* C4: however often analyze_bulkification is called, missing_bulk holds at
\* most one warning per anti-pattern kind, so at most two.
C4_OneWarningPerKind ==
    /\ Len(issues.missing_bulk) <= 2
    /\ \A j, k \in 1..Len(issues.missing_bulk) :
           j # k => issues.missing_bulk[j].message # issues.missing_bulk[k].message

\* C5: in every state of main's run, every finding of either kind has
\* 1 <= loop_start <= line.
C5_LoopStartBeforeLine ==
    /\ \A k \in 1..Len(issues.dml_in_loops) :
           /\ 1 <= issues.dml_in_loops[k].loop_start
           /\ issues.dml_in_loops[k].loop_start <= issues.dml_in_loops[k].line
    /\ \A k \in 1..Len(issues.soql_in_loops) :
           /\ 1 <= issues.soql_in_loops[k].loop_start
           /\ issues.soql_in_loops[k].loop_start <= issues.soql_in_loops[k].line

\* a DML finding below its loop header and a SOQL finding on its loop header
C5_Witness ==
    /\ \E k \in 1..Len(issues.dml_in_loops) :
           issues.dml_in_loops[k].loop_start < issues.dml_in_loops[k].line
    /\ \E k \in 1..Len(issues.soql_in_loops) :
           issues.soql_in_loops[k].loop_start = issues.soql_in_loops[k].line

\* net number of braces opened by the first n lines of a text
RECURSIVE BraceDepth(_, _)
BraceDepth(lines, n) ==
    IF n = 0 THEN 0
    ELSE BraceDepth(lines, n - 1)
         + Cardinality({j \in 1..Len(lines[n]) : lines[n][j] = "{"})
         - Cardinality({j \in 1..Len(lines[n]) : lines[n][j] = "}"})

\* line k is a lone closing brace met inside a loop (inside_before: whether
\* the scanner is inside a loop when it reaches line k), and no loop opens
\* on lines k+1..i
AfterShallowExit(lines, inside_before, k, i) ==
    /\ k <= i
    /\ inside_before
    /\ IsCloseLine(lines[k])
    /\ \A m \in (k + 1)..i : ~search_for(lines[m])

\* C6: a lone closing brace met inside a loop puts the scanner outside the
\* loop, whatever the brace depth, and no line from that brace up to the
\* next loop-opening line gets a finding of either kind.
C6_ShallowBraceExit ==
    LET lines == trigger_body
    IN  \A dml_in \in {[k \in 0..Len(lines) |-> dml_scan(lines, k).in_loop]} :
        \A soql_in \in {[k \in 0..Len(lines) |-> soql_scan(lines, k).in_loop]} :
        \A k \in 1..Len(lines) : \A i \in k..Len(lines) :
            /\ AfterShallowExit(lines, dml_in[k - 1], k, i)
                   => /\ ~dml_in[i]
                      /\ CountAt(issues.dml_in_loops, i) = 0
            /\ AfterShallowExit(lines, soql_in[k - 1], k, i)
                   => /\ ~soql_in[i]
                      /\ CountAt(issues.soql_in_loops, i) = 0

\* the DML sweep has run on a text whose loop holds a nested block: the
\* nested block's brace ended the loop for the scanner while a block was
\* still open, and a DML statement after it got no finding
C6_Witness ==
    /\ pc = "dml"
    /\ \E k \in 1..Len(trigger_body) : \E i \in (k + 1)..Len(trigger_body) :
           /\ dml_scan(trigger_body, k - 1).in_loop
           /\ IsCloseLine(trigger_body[k])
           /\ BraceDepth(trigger_body, k) >= 1
           /\ \A m \in (k + 1)..i : ~search_for(trigger_body[m])
           /\ dml_matches(trigger_body[i]) # <<>>
           /\ CountAt(issues.dml_in_loops, i) = 0

\* C7: a line inside a loop that k of the five DML patterns match gets
\* exactly k findings from one sweep, all with that line number and one
\* loop_start; a pattern gives at most one finding per line.
C7_OneFindingPerPattern ==
    [][pc' = "dml" =>
        \A inside \in {DmlInside(trigger_body)} :
        \A seg \in {Appended(issues.dml_in_loops, issues'.dml_in_loops)} :
            \A i \in 1..Len(trigger_body) :
                inside[i] =>
                    /\ CountAt(seg, i) =
                           Cardinality({t \in DmlTokens :
                               search_dml(t, trigger_body[i])})
                    /\ \A a, b \in 1..Len(seg) :
                           (seg[a].line = i /\ seg[b].line = i)
                               => seg[a].loop_start = seg[b].loop_start]_vars

\* a sweep has reported two findings for one line
C7_Witness ==
    /\ pc = "dml"
    /\ \E a, b \in 1..Len(issues.dml_in_loops) :
           /\ a # b
           /\ issues.dml_in_loops[a].line = issues.dml_in_loops[b].line
           /\ Len(dml_matches(trigger_body[issues.dml_in_loops[a].line])) = 2

\* position of a token in dml_patterns
PatternIndex(token) == CHOOSE k \in 1..Len(dml_patterns) : dml_patterns[k] = token

\* C8: the findings of one sweep are in ascending line order, a finding
\* never following one with a larger line number, and the findings of one
\* line come from the matching patterns taken in declaration order.
C8_FindingsInLineOrder ==
    [][pc' = "dml" =>
        \A seg \in {Appended(issues.dml_in_loops, issues'.dml_in_loops)} :
            /\ \A a, b \in 1..Len(seg) : a < b => seg[a].line <= seg[b].line
            /\ \A i \in 1..Len(trigger_body) :
                   LET m == dml_matches(trigger_body[i])
                   IN  \A a, b \in 1..Len(m) :
                           a < b => PatternIndex(m[a]) < PatternIndex(m[b])]_vars

\* a sweep has reported findings for two lines, two of them for one line
\* whose tokens stand in the opposite of the declaration order
C8_Witness ==
    /\ pc = "dml"
    /\ \E a, b \in 1..Len(issues.dml_in_loops) :
           issues.dml_in_loops[a].line < issues.dml_in_loops[b].line
    /\ \E a, b \in 1..Len(issues.dml_in_loops) :
           /\ a # b
           /\ issues.dml_in_loops[a].line = issues.dml_in_loops[b].line
           /\ trigger_body[issues.dml_in_loops[a].line] = LineTwoDml

\* C9: called on a report without warnings, analyze_bulkification appends a
\* DML warning exactly if there are DML findings and a SOQL warning exactly
\* if there are SOQL findings, the DML one first; each warning lists the
\* line numbers of its findings in detection order, duplicates kept.
C9_WarningsFromFindings ==
    [][(pc' = "bulk" /\ issues.missing_bulk = <<>>) =>
        LET dml == issues.dml_in_loops
            soql == issues.soql_in_loops
            out == issues'.missing_bulk
            ofDml == {k \in 1..Len(out) : out[k].message = DmlMessage}
            ofSoql == {k \in 1..Len(out) : out[k].message = SoqlMessage}
        IN  /\ ofDml \cup ofSoql = 1..Len(out)
            /\ Cardinality(ofDml) = (IF dml = <<>> THEN 0 ELSE 1)
            /\ Cardinality(ofSoql) = (IF soql = <<>> THEN 0 ELSE 1)
            /\ \A a \in ofDml : \A b \in ofSoql : a < b
            /\ \A a \in ofDml :
                   /\ Len(out[a].affected_lines) = Len(dml)
                   /\ \A k \in 1..Len(dml) : out[a].affected_lines[k] = dml[k].line
            /\ \A b \in ofSoql :
                   /\ Len(out[b].affected_lines) = Len(soql)
                   /\ \A k \in 1..Len(soql) : out[b].affected_lines[k] = soql[k].line]_vars

\* one call has produced both warnings, the DML one listing a line twice
C9_Witness ==
    /\ pc = "bulk"
    /\ Len(issues.missing_bulk) = 2
    /\ issues.missing_bulk[1].message = DmlMessage
    /\ issues.missing_bulk[2].message = SoqlMessage
    /\ \E j, k \in 1..Len(issues.missing_bulk[1].affected_lines) :
           /\ j # k
           /\ issues.missing_bulk[1].affected_lines[j]
                  = issues.missing_bulk[1].affected_lines[k]

----------------------------------------------------------------------------
\* no line of the text opens a loop
NoLoop(lines) == \A i \in 1..Len(lines) : ~search_for(lines[i])

\* the number of non-blank lines of a text
NonBlankCount(lines) == Cardinality({i \in 1..Len(lines) : IsNonBlank(lines[i])})

\* min(floor(non-blank lines / 10), 3)
LineBonus(lines) ==
    IF NonBlankCount(lines) \div 10 > 3 THEN 3 ELSE NonBlankCount(lines) \div 10

\* C11 as claimed: for a text without a loop-opening line main ends with no
\* findings, no warnings and complexity_score = 1 + trigger-context markers
\* + line-count bonus.
C11_NoLoopScoreUncapped ==
    (Scored /\ NoLoop(trigger_body)) =>
        /\ issues.dml_in_loops = <<>>
        /\ issues.soql_in_loops = <<>>
        /\ issues.missing_bulk = <<>>
        /\ complexity_score =
               1 + Cardinality(MarkerSites(trigger_body)) + LineBonus(trigger_body)

\* C11 amended: for a text without a loop-opening line main ends with no
\* findings, no warnings and complexity_score = min(10, 1 + trigger-context
\* markers + line-count bonus).
C11_NoLoopScore ==
    (Scored /\ NoLoop(trigger_body)) =>
        /\ issues.dml_in_loops = <<>>
        /\ issues.soql_in_loops = <<>>
        /\ issues.missing_bulk = <<>>
        /\ \A sum \in {1 + Cardinality(MarkerSites(trigger_body))
                          + LineBonus(trigger_body)} :
               complexity_score = IF sum > 10 THEN 10 ELSE sum

\* a scored text without loops that has a DML statement, a query, markers
\* and a line-count bonus
C11_Witness ==
    /\ pc = "scored"
    /\ NoLoop(trigger_body)
    /\ \E i \in 1..Len(trigger_body) : dml_matches(trigger_body[i]) # <<>>
    /\ \E i \in 1..Len(trigger_body) : search_soql(trigger_body[i])
    /\ LineBonus(trigger_body) > 0
    /\ Cardinality(MarkerSites(trigger_body)) > 0

\* the three recommendations, as the claims name them
SimpleHandler == "Simple handler class with separate methods for each trigger context"
BulkifiedHandler == "Handler class with bulkified collections and helper methods"
UnifiedFramework ==
    "Unified handler framework with separate concern classes (validation, DML, etc.)"

\* C12: the recommendation is a function of the score alone with three tiers:
\* score <= 3 the simple handler, 4..6 the bulkified handler class, >= 7 the
\* unified framework; every score in 1..10 gets exactly one of the three
\* (distinct) strings, and the report prints the one of its score.
C12_ThreeTiers ==
    /\ Cardinality({SimpleHandler, BulkifiedHandler, UnifiedFramework}) = 3
    /\ \A score \in 1..10 :
          /\ score <= 3 => recommend_approach(score) = SimpleHandler
          /\ (4 <= score /\ score <= 6) => recommend_approach(score) = BulkifiedHandler
          /\ score >= 7 => recommend_approach(score) = UnifiedFramework
    /\ pc = "reported" =>
          /\ complexity_score <= 3 => recommendation = SimpleHandler
          /\ (4 <= complexity_score /\ complexity_score <= 6)
                => recommendation = BulkifiedHandler
          /\ complexity_score >= 7 => recommendation = UnifiedFramework

\* a report at the upper edge of the middle tier
C12_Witness ==
    pc = "reported" /\ complexity_score = 6 /\ recommendation = BulkifiedHandler

\* C13: the empty text run through main's steps has no DML finding, no SOQL
\* finding and no warning after the sweeps and the bulkification, score 1
\* after scoring, and the simple-handler recommendation in the report.
C13_EmptyInput ==
    (trigger_body = << <<>> >> /\ pc \in {"bulk", "scored", "reported"}) =>
        /\ issues.dml_in_loops = <<>>
        /\ issues.soql_in_loops = <<>>
        /\ issues.missing_bulk = <<>>
        /\ Scored => complexity_score = 1
        /\ pc = "reported" => recommendation = SimpleHandler

\* the report of the empty text
C13_Witness ==
    /\ trigger_body = << <<>> >>
    /\ retrieved = "ok"
    /\ pc = "reported"
    /\ recommendation # ""

C15_ScoreInRangeFromConstruction == complexity_score \in 1..10

\* whether the scanner of either sweep is inside a loop after line n: some
\* line j <= n opens a loop and no line from j to n is a lone closing brace
InsideAfter(lines, n) ==
    \E j \in 1..n :
        /\ search_for(lines[j])
        /\ \A k \in j..n : ~IsCloseLine(lines[k])

\* the lines up to i where the scanner goes from outside to inside a loop
Entries(lines, i) ==
    {j \in 1..i : search_for(lines[j]) /\ ~InsideAfter(lines, j - 1)}

\* the loop-opening lines up to i
Openers(lines, i) == {j \in 1..i : search_for(lines[j])}

\* loop_start is the largest line of the set
IsLast(loop_start, set) == loop_start \in set /\ \A j \in set : j <= loop_start

\* C16 as claimed: the loop_start of every finding is the line of the
\* scanner's most recent transition from outside to inside a loop; a
\* loop-opening line met inside a loop does not change it.
C16_LoopStartIsLastEntry ==
    /\ \A k \in 1..Len(issues.dml_in_loops) :
          IsLast(issues.dml_in_loops[k].loop_start,
                 Entries(trigger_body, issues.dml_in_loops[k].line))
    /\ \A k \in 1..Len(issues.soql_in_loops) :
          IsLast(issues.soql_in_loops[k].loop_start,
                 Entries(trigger_body, issues.soql_in_loops[k].line))

\* C16 amended: the loop_start of every finding is the most recent
\* loop-opening line at or before the finding's line, whether the scanner
\* was outside or inside a loop when it met that line.
C16_LoopStartIsLastOpener ==
    /\ \A k \in 1..Len(issues.dml_in_loops) :
          IsLast(issues.dml_in_loops[k].loop_start,
                 Openers(trigger_body, issues.dml_in_loops[k].line))
    /\ \A k \in 1..Len(issues.soql_in_loops) :
          IsLast(issues.soql_in_loops[k].loop_start,
                 Openers(trigger_body, issues.soql_in_loops[k].line))

\* a DML finding and a SOQL finding whose loop opened inside another loop
C16_Witness ==
    /\ pc = "reported"
    /\ \E k \in 1..Len(issues.dml_in_loops) :
          issues.dml_in_loops[k].loop_start
              \notin Entries(trigger_body, issues.dml_in_loops[k].line)
    /\ \E k \in 1..Len(issues.soql_in_loops) :
          issues.soql_in_loops[k].loop_start
              \notin Entries(trigger_body, issues.soql_in_loops[k].line)

\* C17: a DML sweep changes the DML finding sequence only, a SOQL sweep the
\* SOQL finding sequence only (text, the other sequence, warnings and score
\* stay as they are), and what a sweep adds is determined by the text alone;
\* hence the two sweeps in either order leave the same analyzer.
C17_SweepsIndependent ==
    [][/\ pc' = "dml" =>
            /\ UNCHANGED <<trigger_body, complexity_score>>
            /\ issues'.soql_in_loops = issues.soql_in_loops
            /\ issues'.missing_bulk = issues.missing_bulk
            /\ issues'.dml_in_loops =
                   issues.dml_in_loops \o dml_scan(trigger_body, Len(trigger_body)).found
       /\ pc' = "soql" =>
            /\ UNCHANGED <<trigger_body, complexity_score>>
            /\ issues'.dml_in_loops = issues.dml_in_loops
            /\ issues'.missing_bulk = issues.missing_bulk
            /\ issues'.soql_in_loops =
                   issues.soql_in_loops \o soql_scan(trigger_body, Len(trigger_body)).found
      ]_vars

\* a DML sweep has run after a SOQL sweep, a warning and a score, and both
\* sweeps have found something
C17_Witness ==
    /\ pc = "dml"
    /\ issues.dml_in_loops # <<>>
    /\ issues.soql_in_loops # <<>>
    /\ issues.missing_bulk # <<>>
    /\ complexity_score > 0

\* the scanner started outside a loop is inside one after the last line
EndsInside(lines) == InsideAfter(lines, Len(lines))

\* C18: every sweep, a repeated one too, starts outside a loop and takes each
\* line of the text once: what it appends has, for each line, one finding
\* per matching pattern if the scanner started outside is inside a loop at
\* that line, none otherwise, and nothing for a line beyond the text; after
\* a sweep of a text whose last line leaves the scanner inside a loop the
\* same sweep can run again.
C18_SweepFromOutside ==
    /\ []((pc = "dml" /\ EndsInside(trigger_body)
               /\ Len(issues.dml_in_loops) < MaxFindings) => ENABLED DmlSweep)
    /\ []((pc = "soql" /\ EndsInside(trigger_body)
               /\ Len(issues.soql_in_loops) < MaxFindings) => ENABLED SoqlSweep)
    /\ [][/\ pc' = "dml" =>
               \A seg \in {Appended(issues.dml_in_loops, issues'.dml_in_loops)} :
                   /\ \A k \in 1..Len(seg) : seg[k].line \in 1..Len(trigger_body)
                   /\ \A i \in 1..Len(trigger_body) :
                          CountAt(seg, i) =
                              IF InsideAfter(trigger_body, i)
                              THEN Len(dml_matches(trigger_body[i])) ELSE 0
          /\ pc' = "soql" =>
               \A seg \in {Appended(issues.soql_in_loops, issues'.soql_in_loops)} :
                   /\ \A k \in 1..Len(seg) : seg[k].line \in 1..Len(trigger_body)
                   /\ \A i \in 1..Len(trigger_body) :
                          CountAt(seg, i) =
                              IF InsideAfter(trigger_body, i) /\ search_soql(trigger_body[i])
                              THEN 1 ELSE 0
         ]_vars

\* a second DML sweep has run on a text that has a DML statement before its
\* first loop and leaves the scanner inside a loop at the last line
C18_Witness ==
    /\ pc = "dml"
    /\ EndsInside(trigger_body)
    /\ \E i \in 1..Len(trigger_body) :
          /\ dml_matches(trigger_body[i]) # <<>>
          /\ Openers(trigger_body, i) = {}
    /\ Len(issues.dml_in_loops) = 2
    /\ issues.dml_in_loops[1] = issues.dml_in_loops[2]

\* C19: a loop-opening line is itself tested against the patterns: once the
\* DML sweep of main has run, every line that opens a loop and matches a DML
\* pattern has a DML finding with line = loop_start = that line, and once
\* the SOQL sweep has run, every line that opens a loop and has a query has
\* a SOQL finding with line = loop_start = that line.
C19_HeaderLineTested ==
    /\ pc \in {"dml", "soql", "bulk", "scored", "reported"} =>
          \A i \in 1..Len(trigger_body) :
              (search_for(trigger_body[i]) /\ dml_matches(trigger_body[i]) # <<>>) =>
                  \E k \in 1..Len(issues.dml_in_loops) :
                      /\ issues.dml_in_loops[k].line = i
                      /\ issues.dml_in_loops[k].loop_start = i
    /\ pc \in {"soql", "bulk", "scored", "reported"} =>
          \A i \in 1..Len(trigger_body) :
              (search_for(trigger_body[i]) /\ search_soql(trigger_body[i])) =>
                  \E k \in 1..Len(issues.soql_in_loops) :
                      /\ issues.soql_in_loops[k].line = i
                      /\ issues.soql_in_loops[k].loop_start = i

\* a text that starts with a loop header over a query and has a loop header
\* with a DML statement, both reported on their own lines
C19_Witness ==
    /\ pc = "reported"
    /\ search_for(trigger_body[1]) /\ search_soql(trigger_body[1])
    /\ \E k \in 1..Len(issues.soql_in_loops) :
          issues.soql_in_loops[k].line = 1 /\ issues.soql_in_loops[k].loop_start = 1
    /\ \E k \in 1..Len(issues.dml_in_loops) :
          /\ search_for(trigger_body[issues.dml_in_loops[k].line])
          /\ issues.dml_in_loops[k].loop_start = issues.dml_in_loops[k].line

\* C20: in main's order a text with at least one finding of either kind is
\* scored 4 or more (1, 2 for the finding, 1 for its warning), so the report
\* recommends the simple handler only for a text without findings.
C20_FindingMeansAtLeastFour ==
    /\ (Scored /\ (issues.dml_in_loops # <<>> \/ issues.soql_in_loops # <<>>))
          => complexity_score >= 4
    /\ (pc = "reported" /\ recommendation = SimpleHandler)
          => (issues.dml_in_loops = <<>> /\ issues.soql_in_loops = <<>>)

\* the report of a text with one finding and nothing else that counts
C20_Witness ==
    /\ pc = "reported"
    /\ Len(issues.dml_in_loops) + Len(issues.soql_in_loops) = 1
    /\ complexity_score = 4
    /\ recommendation = BulkifiedHandler

====
